---- MODULE Spec2Model ----
(***************************************************************************)
(* Model of src/index.js (MCPManager): the discovery of MCP configuration  *)
(* files (findAllMCPConfigs), the grouping of same-named servers           *)
(* (findConflicts) and the ACTIVE/overridden tagging (displayConflicts).   *)
(*                                                                         *)
(* One behaviour is one run of the `conflicts` command: displayConflicts   *)
(* calls findConflicts, which calls findAllMCPConfigs (through             *)
(* findClaudeConfigs) on a filesystem that does not change during the run. *)
(* Paths and file names are strings, so that String.startsWith,            *)
(* String.includes and String.length are computed on characters as the     *)
(* code computes them.  An entity mapping (mcpServers / servers) is        *)
(* modelled by the set of its keys: type, command and env are copied       *)
(* through unchanged by the code and no decision reads them.               *)
(***************************************************************************)
EXTENDS Integers, Sequences, FiniteSets, TLC

VARIABLES
    fs,         \* what each config file path holds (read only)
    baseDir,    \* process.cwd(), the default of findAllMCPConfigs' baseDir
    pc,         \* where the run is: start, scan, returned, grouped, reported
    seedIdx,    \* the index into commonDirs of the loop of lines 110-114
    configs,    \* const configs = [] (line 45)
    visited,    \* const visited = new Set() (line 46)
    result,     \* what findAllMCPConfigs returned (line 121)
    conflicts,  \* what findConflicts returned (line 357)
    report,     \* the lines displayConflicts wrote, group by group
    stderr      \* the number of lines written with console.error (line 207)

vars == <<fs, baseDir, pc, seedIdx, configs, visited, result, conflicts,
          report, stderr>>

(***************************************************************************)
(* Bounds of the model and constants of the program.                       *)
(***************************************************************************)
\* At most this many config files besides ~/.claude.json are on disk.
MaxFiles == 2

\* findAllMCPConfigs(baseDir = process.cwd(), maxDepth = 4)
maxDepth == 4

(***************************************************************************)
(* String helpers (JavaScript String and path methods).                    *)
(***************************************************************************)
\* s.startsWith(p)
startsWith(s, p) == Len(s) >= Len(p) /\ SubSeq(s, 1, Len(p)) = p

\* s.includes(p)
includes(s, p) ==
    \E i \in 1..(Len(s) - Len(p) + 1) : SubSeq(s, i, i + Len(p) - 1) = p

\* path.join(dir, file) for an absolute, normalised dir and a bare name
join(dir, file) == dir \o "/" \o file

(***************************************************************************)
(* The filesystem.  The directory tree is fixed; what the config files     *)
(* hold is chosen by Init.                                                 *)
(***************************************************************************)
\* os.homedir()
homeDir == "/u"

\* The directories that exist.  ~/Documents does not.
Dirs ==
    { "/u", "/u/Desktop", "/u/Desktop/node_modules",
      "/u/Projects", "/u/Projects/a", "/u/Projects/a/b",
      "/u/Projects/a/b/c", "/u/Projects/a/b/c/d", "/u/Projects/a/b/c/d/e",
      "/u/Projects/dist", "/u2", "/opt" }

\* process.cwd(): the directories the command may be run from.
WorkingDirs ==
    { "/u", "/u/Projects/a/b/c/d", "/u/Projects/dist", "/u2", "/opt" }

\* The entry names of the tree, in the order readdirSync lists them.
EntryNames ==
    << ".claude.json", ".claude_mcp_config.json", ".mcp.json",
       "Desktop", "Projects", "a", "b", "c", "claude.json", "d", "dist",
       "e", "mcp.json", "node_modules" >>

\* The primary registry, ~/.claude.json
homeConfigPath == join(homeDir, ".claude.json")

\* The other places a config file may be.
OtherFiles ==
    { "/u/Desktop/claude.json",
      "/u/Desktop/node_modules/.mcp.json",
      "/u/Projects/a/mcp.json",
      "/u/Projects/a/b/c/d/.claude.json",
      "/u/Projects/a/b/c/d/e/.claude_mcp_config.json",
      "/u/Projects/dist/.mcp.json",
      "/u2/.claude.json",
      "/opt/.mcp.json" }

FilePaths == {homeConfigPath} \cup OtherFiles

\* Server names, in the key order of the JSON objects that hold them.
NameOrder == << "github", "supabase" >>

\* The "projects" object of a registry: its keys in order, each with the
\* keys of its mcpServers.
SomeProjects ==
    << [path |-> "/u/Projects/a", mcpServers |-> {"github"}],
       [path |-> "proj",          mcpServers |-> {"supabase"}],
       [path |-> "/gone/x",       mcpServers |-> {"supabase"}],
       [path |-> "/u/Desktop",    mcpServers |-> {}] >>

\* What a file path holds: nothing, text that cannot be read or is not
\* JSON, or a JSON object.
Absent == [kind |-> "absent", mcpServers |-> {}, servers |-> {},
           projects |-> << >>]

Bad == [kind |-> "bad", mcpServers |-> {}, servers |-> {},
        projects |-> << >>]

Json(ms, sv, pr) == [kind |-> "json", mcpServers |-> ms, servers |-> sv,
                     projects |-> pr]

FileContents ==
    { Bad, Json({"github"}, {}, << >>),
      Json({}, {"github", "supabase"}, << >>) }

RegistryContents ==
    { Absent, Bad,
      Json({}, {}, << >>),
      Json({"github"}, {}, << >>),
      Json({"github", "supabase"}, {"github"}, << >>),
      Json({}, {}, SomeProjects),
      Json({"github"}, {}, SomeProjects) }

\* fs.existsSync(p), fs.statSync(p).isFile(), .isDirectory()
isFile(f, p) == p \in DOMAIN f /\ f[p].kind # "absent"

isDirectory(p) == p \in Dirs

existsSync(f, p) == isDirectory(p) \/ isFile(f, p)

\* fs.readdirSync(dir)
readdirSync(f, dir) ==
    SelectSeq(EntryNames, LAMBDA n : existsSync(f, join(dir, n)))

(***************************************************************************)
(* Recognizer and parsers.                                                 *)
(***************************************************************************)
mcpConfigFiles ==
    { ".claude.json", ".mcp.json", ".claude_mcp_config.json", "mcp.json",
      "claude.json" }

isMCPConfigFile(filename) == filename \in mcpConfigFiles

skipDirs ==
    { "node_modules", ".git", ".next", "dist", "build", ".DS_Store",
      "coverage", ".nyc_output", "logs", "tmp", "temp", ".cache", ".npm" }

\* shouldScanDirectory without its skip list: only hidden names are skipped
shouldScanDirectory_HiddenOnly(dirname) == ~startsWith(dirname, ".")

shouldScanDirectory(dirname) ==
    dirname \notin skipDirs /\ ~startsWith(dirname, ".")

\* fs.readFileSync(p, 'utf8') followed by JSON.parse: throws, or gives the
\* object.
readJSON(f, p) ==
    IF isFile(f, p) /\ f[p].kind = "json"
    THEN [threw |-> FALSE, value |-> f[p]]
    ELSE [threw |-> TRUE, value |-> Absent]

\* The value parseMCPConfig returns: null, or { mcpServers: ... }.
null == [isNull |-> TRUE, mcpServers |-> {}]

Config(ms) == [isNull |-> FALSE, mcpServers |-> ms]

parseMCPConfig(f, filePath, filename) ==
    LET r == readJSON(f, filePath)
        config == r.value
    IN  IF r.threw THEN null
        ELSE IF filename = ".claude.json"
        THEN (IF config.mcpServers # {} THEN Config(config.mcpServers)
              ELSE null)
        ELSE IF filename = ".mcp.json"
        THEN (IF config.servers # {} THEN Config(config.servers) ELSE null)
        ELSE IF filename = ".claude_mcp_config.json"
        THEN (IF config.mcpServers # {} THEN Config(config.mcpServers)
              ELSE null)
        ELSE null

determineScope(configPath) ==
    IF configPath = homeDir THEN "user"
    ELSE IF startsWith(configPath, homeDir) THEN "workspace"
    ELSE "system"

\* The path fs.existsSync looks at: a relative path is taken from the
\* working directory.
resolve(cwd, p) == IF startsWith(p, "/") THEN p ELSE join(cwd, p)

\* The forEach over Object.keys(config.projects) of parseClaudeConfig.
RECURSIVE projectConfigs(_, _, _, _)
projectConfigs(f, cwd, configPath, projects) ==
    IF projects = << >> THEN << >>
    ELSE LET projectPath == Head(projects).path
             ms == Head(projects).mcpServers
             rest == projectConfigs(f, cwd, configPath, Tail(projects))
         IN  IF ms # {} /\ (existsSync(f, resolve(cwd, projectPath))
                            \/ includes(projectPath, "/"))
             THEN << [path |-> projectPath,
                      configPath |-> configPath,
                      config |-> Config(ms),
                      scope |-> "workspace",
                      configType |-> ".claude.json (project)"] >> \o rest
             ELSE rest

\* parseClaudeConfig without its try/catch: a read or parse failure leaves it
parseClaudeConfig_NoCatch(f, cwd, configPath) ==
    LET r == readJSON(f, configPath)
        config == r.value
    IN  IF r.threw
        THEN [configs |-> << >>, errors |-> 0, threw |-> TRUE]
        ELSE [configs |->
                (IF config.mcpServers # {}
                 THEN << [path |-> homeDir,
                          configPath |-> configPath,
                          config |-> Config(config.mcpServers),
                          scope |-> "user",
                          configType |-> ".claude.json"] >>
                 ELSE << >>)
                \o projectConfigs(f, cwd, configPath, config.projects),
              errors |-> 0,
              threw |-> FALSE]

\* parseClaudeConfig: the records of the registry, the number of lines it
\* writes with console.error, and whether an exception leaves it.
parseClaudeConfig(f, cwd, configPath) ==
    LET r == readJSON(f, configPath)
        config == r.value
    IN  IF r.threw
        THEN [configs |-> << >>, errors |-> 1, threw |-> FALSE]
        ELSE [configs |->
                (IF config.mcpServers # {}
                 THEN << [path |-> homeDir,
                          configPath |-> configPath,
                          config |-> Config(config.mcpServers),
                          scope |-> "user",
                          configType |-> ".claude.json"] >>
                 ELSE << >>)
                \o projectConfigs(f, cwd, configPath, config.projects),
              errors |-> 0,
              threw |-> FALSE]

(***************************************************************************)
(* The walker.  st is the pair of the closure's configs and visited.       *)
(***************************************************************************)
RECURSIVE scanDirectory(_, _, _, _)
RECURSIVE scanFiles(_, _, _, _, _)

\* scanDirectory(dir, depth): lines 48-90
scanDirectory(f, st, dir, depth) ==
    IF depth > maxDepth \/ dir \in st.visited THEN st
    ELSE LET st1 == [st EXCEPT !.visited = @ \cup {dir}]
         IN  IF ~isDirectory(dir) THEN st1
             ELSE scanFiles(f, st1, dir, depth, readdirSync(f, dir))

\* the loop `for (const file of files)`: lines 55-85
scanFiles(f, st, dir, depth, files) ==
    IF files = << >> THEN st
    ELSE LET file == Head(files)
             filePath == join(dir, file)
             config == parseMCPConfig(f, filePath, file)
             st1 == IF isFile(f, filePath) /\ isMCPConfigFile(file)
                       /\ ~config.isNull
                    THEN [st EXCEPT !.configs = Append(@,
                            [path |-> dir,
                             configPath |-> filePath,
                             config |-> config,
                             scope |-> determineScope(dir),
                             configType |-> file])]
                    ELSE st
             st2 == IF isDirectory(filePath) /\ depth < maxDepth
                       /\ shouldScanDirectory(file)
                    THEN scanDirectory(f, st1, filePath, depth + 1)
                    ELSE st1
         IN  IF startsWith(file, ".") /\ ~includes(file, ".json")
             THEN scanFiles(f, st, dir, depth, Tail(files))
             ELSE scanFiles(f, st2, dir, depth, Tail(files))

\* const commonDirs = [...]: lines 103-108
commonDirs(cwd) ==
    << join(homeDir, "Desktop"), join(homeDir, "Documents"),
       join(homeDir, "Projects"), cwd >>

(***************************************************************************)
(* Aggregator: duplicates removed, then sorted by path length.             *)
(***************************************************************************)
sameKey(c, d) == c.path = d.path /\ c.configType = d.configType

\* self.findIndex(c => ...)
findIndex(self, config) ==
    CHOOSE i \in 1..Len(self) :
        /\ sameKey(self[i], config)
        /\ \A j \in 1..(i - 1) : ~sameKey(self[j], config)

RECURSIVE filterFrom(_, _)
filterFrom(self, index) ==
    IF index > Len(self) THEN << >>
    ELSE (IF index = findIndex(self, self[index]) THEN << self[index] >>
          ELSE << >>) \o filterFrom(self, index + 1)

\* the filter that keeps every record
uniqueConfigs_KeepAll(cs) == cs

\* configs.filter(...): lines 117-119
uniqueConfigs(cs) == filterFrom(cs, 1)

\* One step of the stable sort: c goes after every element whose path is
\* no longer than its own.
RECURSIVE insertByLength(_, _)
insertByLength(sorted, c) ==
    IF sorted = << >> THEN << c >>
    ELSE IF Len(Head(sorted).path) - Len(c.path) <= 0
    THEN << Head(sorted) >> \o insertByLength(Tail(sorted), c)
    ELSE << c >> \o sorted

RECURSIVE sortFrom(_, _, _)
sortFrom(cs, index, sorted) ==
    IF index > Len(cs) THEN sorted
    ELSE sortFrom(cs, index + 1, insertByLength(sorted, cs[index]))

\* the sort with its comparator turned round: longest path first
sortByPathLength_Descending(cs) ==
    LET up == sortFrom(cs, 1, << >>)
    IN  [i \in 1..Len(up) |-> up[Len(up) - i + 1]]

\* uniqueConfigs.sort((a, b) => a.path.length - b.path.length): line 121
sortByPathLength(cs) == sortFrom(cs, 1, << >>)

(***************************************************************************)
(* Precedence resolver.                                                    *)
(***************************************************************************)
\* Object.keys(config.mcpServers).map(...): the servers in key order
getServersFromConfig(config) ==
    IF config.mcpServers = {} THEN << >>
    ELSE SelectSeq(NameOrder, LAMBDA n : n \in config.mcpServers)

\* serversByName.has / set / get(...).push: the Map is the sequence of its
\* entries in insertion order.
pushInstance(serversByName, serverName, instance) ==
    IF \E k \in 1..Len(serversByName) :
            serversByName[k].serverName = serverName
    THEN [k \in 1..Len(serversByName) |->
            IF serversByName[k].serverName = serverName
            THEN [serversByName[k] EXCEPT !.instances = Append(@, instance)]
            ELSE serversByName[k]]
    ELSE Append(serversByName,
                [serverName |-> serverName, instances |-> << instance >>])

RECURSIVE eachServer(_, _, _)
eachServer(serversByName, configData, servers) ==
    IF servers = << >> THEN serversByName
    ELSE eachServer(
            pushInstance(serversByName, Head(servers),
                         [name |-> Head(servers),
                          configPath |-> configData.path,
                          scope |-> configData.scope]),
            configData, Tail(servers))

RECURSIVE eachConfig(_, _, _)
eachConfig(serversByName, cs, index) ==
    IF index > Len(cs) THEN serversByName
    ELSE eachConfig(
            eachServer(serversByName, cs[index],
                       getServersFromConfig(cs[index].config)),
            cs, index + 1)

\* the threshold off by one: `> 0`
isConflict_AtLeastOne(instances) == Len(instances) > 0

\* a name is a conflict when it has this many instances or more: `> 1`
isConflict(instances) == Len(instances) > 1

\* findConflicts, given what findClaudeConfigs returned
findConflicts(cs) ==
    SelectSeq(eachConfig(<< >>, cs, 1),
              LAMBDA e : isConflict(e.instances))

\* the first instance wins instead of the last
isWinner_First(index, instances) == index = 0

\* const isWinner = index === conflict.instances.length - 1 (index from 0)
isWinner(index, instances) == index = Len(instances) - 1

\* displayConflicts: the lines written for each conflict
displayConflicts(cf) ==
    [g \in 1..Len(cf) |->
        [serverName |-> cf[g].serverName,
         lines |-> [k \in 1..Len(cf[g].instances) |->
            [configPath |-> cf[g].instances[k].configPath,
             scope |-> cf[g].instances[k].scope,
             status |-> IF isWinner(k - 1, cf[g].instances)
                        THEN "ACTIVE" ELSE "overridden"]]]]

\* findAllMCPConfigs as one function of the filesystem and the working
\* directory, for statements that compare two filesystems.
RECURSIVE scanSeeds(_, _, _, _)
scanSeeds(f, st, dirs, index) ==
    IF index > Len(dirs) THEN st
    ELSE scanSeeds(f,
            IF existsSync(f, dirs[index])
            THEN scanDirectory(f, st, dirs[index], 0) ELSE st,
            dirs, index + 1)

findAllMCPConfigs(f, cwd) ==
    LET home == IF existsSync(f, homeConfigPath)
                THEN parseClaudeConfig(f, cwd, homeConfigPath).configs
                ELSE << >>
        st == scanSeeds(f, [configs |-> home, visited |-> {}],
                        commonDirs(cwd), 1)
    IN  sortByPathLength(uniqueConfigs(st.configs))

(***************************************************************************)
(* The run.                                                                *)
(***************************************************************************)
\* The sets of other config files on disk
FileSets == { S \in SUBSET OtherFiles : Cardinality(S) <= MaxFiles }

Filesystems ==
    UNION { UNION { { [p \in FilePaths |->
                        IF p = homeConfigPath THEN r
                        ELSE IF p \in S THEN c[p] ELSE Absent] :
                      c \in [S -> FileContents] } :
                    S \in FileSets } :
            r \in RegistryContents }

Init ==
    /\ fs \in Filesystems
    /\ baseDir \in WorkingDirs
    /\ pc = "start"
    /\ seedIdx = 1
    /\ configs = << >>
    /\ visited = {}
    /\ result = << >>
    /\ conflicts = << >>
    /\ report = << >>
    /\ stderr = 0

\* lines 95-100: the primary registry
ParseHome ==
    /\ pc = "start"
    /\ LET r == parseClaudeConfig(fs, baseDir, homeConfigPath)
       IN  IF existsSync(fs, homeConfigPath)
           THEN /\ configs' = configs \o r.configs
                /\ stderr' = stderr + r.errors
                /\ pc' = IF r.threw THEN "threw" ELSE "scan"
           ELSE /\ pc' = "scan"
                /\ UNCHANGED <<configs, stderr>>
    /\ UNCHANGED <<fs, baseDir, seedIdx, visited, result, conflicts, report>>

\* lines 110-114: one turn of `for (const dir of commonDirs)`
ScanSeed ==
    /\ pc = "scan"
    /\ seedIdx <= Len(commonDirs(baseDir))
    /\ LET dir == commonDirs(baseDir)[seedIdx]
           st == scanDirectory(fs, [configs |-> configs, visited |-> visited],
                               dir, 0)
       IN  IF existsSync(fs, dir)
           THEN configs' = st.configs /\ visited' = st.visited
           ELSE UNCHANGED <<configs, visited>>
    /\ seedIdx' = seedIdx + 1
    /\ UNCHANGED <<fs, baseDir, pc, result, conflicts, report, stderr>>

\* lines 116-121: remove duplicates, sort, return
Return ==
    /\ pc = "scan"
    /\ seedIdx > Len(commonDirs(baseDir))
    /\ result' = sortByPathLength(uniqueConfigs(configs))
    /\ pc' = "returned"
    /\ UNCHANGED <<fs, baseDir, seedIdx, configs, visited, conflicts, report,
                   stderr>>

\* lines 330-357: findConflicts after its call of findClaudeConfigs
FindConflicts ==
    /\ pc = "returned"
    /\ conflicts' = findConflicts(result)
    /\ pc' = "grouped"
    /\ UNCHANGED <<fs, baseDir, seedIdx, configs, visited, result, report,
                   stderr>>

\* lines 363-384: displayConflicts after its call of findConflicts
DisplayConflicts ==
    /\ pc = "grouped"
    /\ report' = displayConflicts(conflicts)
    /\ pc' = "reported"
    /\ UNCHANGED <<fs, baseDir, seedIdx, configs, visited, result, conflicts,
                   stderr>>

Next ==
    \/ ParseHome
    \/ ScanSeed
    \/ Return
    \/ FindConflicts
    \/ DisplayConflicts

Spec == Init /\ [][Next]_vars

(***************************************************************************)
(* Vocabulary of the properties.                                           *)
(***************************************************************************)
Returned == pc \in {"returned", "grouped", "reported"}

\* The position of the last "/" of s at or before i (0: none)
RECURSIVE lastSlash(_, _)
lastSlash(s, i) ==
    IF i = 0 THEN 0
    ELSE IF SubSeq(s, i, i) = "/" THEN i
    ELSE lastSlash(s, i - 1)

dirname(p) == SubSeq(p, 1, lastSlash(p, Len(p)) - 1)

basename(p) == SubSeq(p, lastSlash(p, Len(p)) + 1, Len(p))

\* The names between the slashes of a relative path "x/y/z"
RECURSIVE components(_)
components(rel) ==
    IF rel = "" THEN << >>
    ELSE IF lastSlash(rel, Len(rel)) = 0 THEN << rel >>
    ELSE Append(components(dirname(rel)), basename(rel))

\* The directory names on the way down from seed to dir, a directory
\* below it
NamesBelow(seed, dir) == components(SubSeq(dir, Len(seed) + 2, Len(dir)))

\* dir is the seed, or lies below it and every directory name on the way
\* down from the seed is one the walker enters.
EnteredBelow(seed, dir) ==
    \/ dir = seed
    \/ /\ startsWith(dir, seed \o "/")
       /\ \A k \in 1..Len(NamesBelow(seed, dir)) :
             /\ NamesBelow(seed, dir)[k] \notin skipDirs
             /\ ~startsWith(NamesBelow(seed, dir)[k], ".")

\* How many levels below the seed dir lies
DepthBelow(seed, dir) ==
    IF dir = seed THEN 0 ELSE Len(NamesBelow(seed, dir))

HasRecord(cs, dir, file) ==
    \E i \in 1..Len(cs) : cs[i].path = dir /\ cs[i].configType = file

\* The number of records of the returned collection that declare `name`
Declaring(name) ==
    { i \in 1..Len(result) : name \in result[i].config.mcpServers }

Names == { NameOrder[k] : k \in 1..Len(NameOrder) }

GroupsOf(name) ==
    { g \in 1..Len(conflicts) : conflicts[g].serverName = name }

\* The key that holds the entity mapping: `servers` for the two mcp names,
\* `mcpServers` for the three claude names.
EntityMapping(filename, content) ==
    IF filename \in {".mcp.json", "mcp.json"} THEN content.servers
    ELSE content.mcpServers

\* The scope the data model gives a directory: by ancestry, not by prefix
ScopeOf(dir) ==
    IF dir = homeDir THEN "user"
    ELSE IF startsWith(dir, homeDir \o "/") THEN "workspace"
    ELSE "system"

\* The filesystem with every unreadable or ill-formed file removed
WithoutBadFiles(f) ==
    [p \in DOMAIN f |-> IF f[p].kind = "bad" THEN Absent ELSE f[p]]

(***************************************************************************)
(* C1.  In the returned collection no two records have the same            *)
(* (path, configType) pair.                                                *)
(***************************************************************************)
C1_DistinctKeys ==
    Returned =>
        \A i, j \in 1..Len(result) :
            (result[i].path = result[j].path
             /\ result[i].configType = result[j].configType) => i = j

\* The registry and the scan of the home directory both declared
\* (~, .claude.json), and one of the two records was dropped.
C1_Witness ==
    /\ pc = "returned"
    /\ Len(result) < Len(configs)
    /\ Len(result) >= 2

(***************************************************************************)
(* C2.  The returned collection is sorted non-decreasing by the length of  *)
(* the records' paths.                                                     *)
(***************************************************************************)
C2_SortedByPathLength ==
    Returned =>
        \A i \in 1..(Len(result) - 1) :
            Len(result[i].path) <= Len(result[i + 1].path)

\* The records were found in an order that is not the sorted one.
C2_Witness ==
    /\ pc = "returned"
    /\ Len(result) >= 3
    /\ \E i \in 1..(Len(configs) - 1) :
            Len(configs[i].path) > Len(configs[i + 1].path)

(***************************************************************************)
(* C3.  A name declared in exactly one record is in no conflict group; a   *)
(* name declared in n >= 2 records is in exactly one group, which holds    *)
(* exactly n instances.                                                    *)
(***************************************************************************)
C3_ConflictSymmetry ==
    pc \in {"grouped", "reported"} =>
        \A name \in Names :
            LET n == Cardinality(Declaring(name))
            IN  /\ n <= 1 => GroupsOf(name) = {}
                /\ n >= 2 =>
                    /\ Cardinality(GroupsOf(name)) = 1
                    /\ \A g \in GroupsOf(name) :
                          Len(conflicts[g].instances) = n

\* One name is declared once and another three times.
C3_Witness ==
    /\ pc = "grouped"
    /\ \E name \in Names : Cardinality(Declaring(name)) = 1
    /\ \E name \in Names : Cardinality(Declaring(name)) >= 3

(***************************************************************************)
(* C4.  In every reported conflict group exactly one instance is ACTIVE,   *)
(* it is the last of the group, its path is at least as long as every      *)
(* other instance's, and every other instance is overridden.               *)
(***************************************************************************)
C4_WinnerIsLastAndLongest ==
    pc = "reported" =>
        \A g \in 1..Len(report) :
            LET lines == report[g].lines
                last == Len(lines)
            IN  /\ last >= 2
                /\ lines[last].status = "ACTIVE"
                /\ \A k \in 1..(last - 1) :
                      /\ lines[k].status = "overridden"
                      /\ Len(lines[k].configPath)
                            <= Len(lines[last].configPath)

\* A group of three instances, the winner's path strictly the longest.
C4_Witness ==
    /\ pc = "reported"
    /\ \E g \in 1..Len(report) :
          /\ Len(report[g].lines) >= 3
          /\ Len(report[g].lines[1].configPath)
                < Len(report[g].lines[Len(report[g].lines)].configPath)

(***************************************************************************)
(* C5.  The instance marked ACTIVE follows the scope order workspace over  *)
(* user over system: a system instance is never ACTIVE in a group that     *)
(* holds a user or workspace instance, and a user instance is never ACTIVE *)
(* in a group that holds a workspace instance.                             *)
(***************************************************************************)
C5_ScopePrecedence ==
    pc = "reported" =>
        \A g \in 1..Len(report) :
            \A k, m \in 1..Len(report[g].lines) :
                LET active == report[g].lines[k]
                    other == report[g].lines[m]
                IN  active.status = "ACTIVE" =>
                        /\ active.scope = "system" =>
                              other.scope \notin {"user", "workspace"}
                        /\ active.scope = "user" =>
                              other.scope # "workspace"

(***************************************************************************)
(* C6.  Each of the five file names isMCPConfigFile accepts is parsed and  *)
(* normalized by parseMCPConfig: a well-formed file whose entity mapping   *)
(* is not empty gives a non-null config holding that mapping, and a record *)
(* in the returned collection when its directory was read.                 *)
(***************************************************************************)
C6_EveryRecognizedNameParsed ==
    Returned =>
        \A p \in FilePaths :
            LET file == basename(p)
                mapping == EntityMapping(file, fs[p])
                config == parseMCPConfig(fs, p, file)
            IN  (isMCPConfigFile(file) /\ fs[p].kind = "json"
                 /\ mapping # {}) =>
                    /\ ~config.isNull
                    /\ config.mcpServers = mapping
                    /\ dirname(p) \in visited =>
                          HasRecord(result, dirname(p), file)

(***************************************************************************)
(* C7.  As claimed: no record of the directory scan has a path with an     *)
(* excluded directory name (on the skip list, or starting with ".") as a   *)
(* component below a seed directory.                                       *)
(***************************************************************************)
C7_NoExcludedNameBelowAnySeed ==
    Returned =>
        \A i \in 1..Len(result) :
            result[i].configType \in mcpConfigFiles =>
                \A k \in 1..Len(commonDirs(baseDir)) :
                    LET seed == commonDirs(baseDir)[k]
                    IN  startsWith(result[i].path, seed \o "/") =>
                            EnteredBelow(seed, result[i].path)

(***************************************************************************)
(* C7, amended.  Every record a seed's scan adds has a path that is the    *)
(* seed itself or lies below that seed through directory names that are    *)
(* neither on the skip list nor start with ".": the walker never descends  *)
(* into an excluded directory, but it does read the seed it is given.      *)
(***************************************************************************)
C7_NoExcludedNameBelowOwnSeed ==
    [][pc = "scan" =>
        \A i \in (Len(configs) + 1)..Len(configs') :
            EnteredBelow(commonDirs(baseDir)[seedIdx],
                         configs'[i].path)]_vars

\* ~/Desktop was scanned, ~/Desktop/node_modules/.mcp.json declares servers,
\* and the collection, which is not empty, has no record of it.
C7_Witness ==
    /\ pc = "returned"
    /\ "/u/Desktop" \in visited
    /\ fs["/u/Desktop/node_modules/.mcp.json"].servers # {}
    /\ ~HasRecord(result, "/u/Desktop/node_modules", ".mcp.json")
    /\ \E i \in 1..Len(result) : result[i].configType \in mcpConfigFiles

(***************************************************************************)
(* C8.  A recognized config file that parses to a non-empty mapping, in a  *)
(* directory at most maxDepth levels below the working directory and       *)
(* reached through non-excluded directories only, is in the returned       *)
(* collection.                                                             *)
(***************************************************************************)
C8_FoundWithinDepthOfWorkingDir ==
    Returned =>
        \A p \in FilePaths :
            (/\ ~parseMCPConfig(fs, p, basename(p)).isNull
             /\ EnteredBelow(baseDir, dirname(p))
             /\ DepthBelow(baseDir, dirname(p)) <= maxDepth) =>
                HasRecord(result, dirname(p), basename(p))

(***************************************************************************)
(* C9.  A scanned record's scope is user exactly when its directory is the *)
(* home directory, workspace exactly when it is a proper descendant of the *)
(* home directory, and system otherwise.                                   *)
(***************************************************************************)
C9_ScopeByAncestry ==
    Returned =>
        \A i \in 1..Len(result) :
            result[i].configType \in mcpConfigFiles =>
                result[i].scope = ScopeOf(result[i].path)

====
